---- MODULE Spec2Model ----
(***************************************************************************)
(* The canary Lambda handler of src/lambda/index.js (the same text is      *)
(* deployed inline by src/lib/lambda-canary-stack.js): one invocation      *)
(* probes every target of event.urls in turn, pushes one URLLatency metric *)
(* per target and one AvailableURLCount metric per run to CloudWatch, and  *)
(* writes the run's log to S3 under a key made from Date.now().            *)
(*                                                                         *)
(* A JavaScript object with string keys is a sequence of <<key, value>>    *)
(* pairs with distinct keys, in the order the keys were inserted.  JS      *)
(* strings are TLA+ strings, built with \o and ToString as the template    *)
(* literals of the source build them.                                      *)
(***************************************************************************)
EXTENDS Integers, Sequences, FiniteSets, TLC

\* ------------------------------------------------------------- bounds
MaxTargets == 2        \* most targets in a supplied mapping
MaxTime == 1           \* last instant Date.now() reaches

\* ------------------------------------------------------------- domains
\* invocations of the handler, each in its own Lambda sandbox
Runs == {1, 2}
\* target names: two array indices and a plain name
Names == {"2", "10", "Google"}
\* a url https.get takes and one it refuses
GoodUrl == "https://a.example/"
PlainUrl == "http://b.example/"
Urls == {GoodUrl, PlainUrl}
\* res.statusCode: the values around the two limits of the success range
StatusCodes == {199, 200, 299, 300}
\* the value undefined: a value that no object equals
Undefined == << <<"undefined">> >>

\* ------------------------------------------------------------- JS objects
\* the sequences over S of length at most n
SeqsUpTo(S, n) == UNION {[1..k -> S] : k \in 0..n}

\* Object.keys(obj), as a set
Keys(obj) == {obj[i][1] : i \in DOMAIN obj}

\* objects with string keys from Names and url values: distinct keys,
\* at most MaxTargets of them, in every insertion order
Mappings == {m \in SeqsUpTo(Names \X Urls, MaxTargets) :
               \A i, j \in DOMAIN m : i # j => m[i][1] # m[j][1]}

\* obj.key: the value stored under key, undefined when the object has none
GetProp(obj, key) ==
  IF key \in Keys(obj)
  THEN LET i == CHOOSE j \in DOMAIN obj : obj[j][1] = key IN obj[i][2]
  ELSE Undefined

\* a faulty variant of OrElse: the empty object taken for falsy
OrElseEmptyIsFalsy(a, b) == IF a = Undefined \/ a = <<>> THEN b ELSE a

\* a || b for the values the handler meets: undefined is falsy, every
\* object (the empty one too) is truthy
OrElse(a, b) == IF a = Undefined THEN b ELSE a

\* The value of a key that is a canonical array index ("0", "1", ...,
\* without sign, leading zero or fraction), -1 for every other key.
ArrayIndex(key) ==
  CASE key = "2" -> 2
    [] key = "10" -> 10
    [] OTHER -> -1

\* the pairs of s whose key is (indexKeys) or is not (~indexKeys) an array
\* index, order kept
RECURSIVE SelectPairs(_, _)
SelectPairs(s, indexKeys) ==
  IF s = <<>> THEN <<>>
  ELSE LET rest == SelectPairs(Tail(s), indexKeys) IN
       IF (ArrayIndex(Head(s)[1]) >= 0) = indexKeys
       THEN <<Head(s)>> \o rest ELSE rest

\* pairs sorted by ascending array index (the keys are distinct)
RECURSIVE SortByIndex(_)
SortByIndex(s) ==
  IF s = <<>> THEN <<>>
  ELSE LET i == CHOOSE j \in DOMAIN s :
                  \A l \in DOMAIN s : ArrayIndex(s[j][1]) <= ArrayIndex(s[l][1])
           without == [l \in 1..(Len(s) - 1) |-> IF l < i THEN s[l] ELSE s[l + 1]]
       IN <<s[i]>> \o SortByIndex(without)

\* a faulty variant of ObjectEntries: the pairs as inserted, whatever the keys
ObjectEntriesAsInserted(obj) == obj

\* Object.entries(obj): own enumerable string-keyed properties in the
\* order of OrdinaryOwnPropertyKeys: array-index keys in ascending numeric
\* order first, then the other keys in insertion order.
ObjectEntries(obj) ==
  SortByIndex(SelectPairs(obj, TRUE)) \o SelectPairs(obj, FALSE)

\* ------------------------------------------------------------- handler data
DefaultUrls == << <<"Google", "https://www.google.com/">>,
                  <<"Youtube", "https://www.youtube.com/">> >>

\* const urls of the stack's constructor
StackUrls == << <<"Google", "https://www.google.com/">>,
               <<"Youtube", "https://www.youtube.com/">> >>

\* the events an invocation may carry: { urls: <mapping> } and an object
\* without a urls property
Events == {<< <<"urls", m>> >> : m \in Mappings} \cup {<<>>}

\* https.get throws synchronously, inside the Promise executor, for a url
\* whose protocol is not https:
GetThrows(url) == SubSeq(url, 1, 6) # "https:"

\* a faulty variant of IsSuccess: 300 counted as a success
IsSuccessUpTo300(statusCode) == statusCode >= 200 /\ statusCode <= 300

\* res.statusCode >= 200 && res.statusCode < 300
IsSuccess(statusCode) == statusCode >= 200 /\ statusCode < 300

\* a faulty variant of Reject: a settled promise settles again
RejectAgain(p) == "rejected"

\* resolve() and reject() of a promise: only a pending promise settles
Resolve(p) == IF p = "pending" THEN "fulfilled" ELSE p
Reject(p) == IF p = "pending" THEN "rejected" ELSE p

\* the response callback of checkUrl
OnResponse(p, statusCode) ==
  IF IsSuccess(statusCode) THEN Resolve(p) ELSE Reject(p)

\* a faulty variant of StatusAfter: the placeholder is kept on a rejection
StatusAfterKeepsUnknown(p) == IF p = "fulfilled" THEN "available" ELSE "unknown"

\* try { await checkUrl(url); status = 'available' } catch { status = 'unavailable' }
StatusAfter(p) == IF p = "fulfilled" THEN "available" ELSE "unavailable"

\* a faulty variant of CountAfter: every probe counted
CountAfterAlways(count, p) == count + 1

\* availableCount++ sits after the await inside the try block
CountAfter(count, p) == IF p = "fulfilled" THEN count + 1 ELSE count

\* a faulty variant of PutMetricDataSettles: the catch block rethrows
PutMetricDataRethrows(sendOk) == IF sendOk THEN "fulfilled" ELSE "rejected"

\* putMetricData: try { await cloudwatch.send(...) } catch (err) { console.error }
\* the promise it returns is fulfilled on both paths
PutMetricDataSettles(sendOk) == IF sendOk THEN "fulfilled" ELSE "fulfilled"

\* a faulty variant of PersistSettles: no try block around s3.send
PersistRethrows(sendOk) == IF sendOk THEN "fulfilled" ELSE "rejected"

\* try { await s3.send(...) } catch (err) { console.error }
PersistSettles(sendOk) == IF sendOk THEN "fulfilled" ELSE "fulfilled"

\* `Name: ${ result.name }, URL: ${ result.url }, Status: ${ result.status }, Latency: ${ result.latency }ms`
LogLine(result) ==
  "Name: " \o result.name \o ", URL: " \o result.url \o ", Status: "
    \o result.status \o ", Latency: " \o ToString(result.latency) \o "ms"

\* a faulty variant of Join: every line ended by a newline
JoinEachEnded(lines) ==
  IF lines = <<>> THEN ""
  ELSE LET RECURSIVE Ended(_)
           Ended(n) == IF n = 0 THEN "" ELSE Ended(n - 1) \o lines[n] \o "\n"
       IN Ended(Len(lines))

\* lines.join('\n')
RECURSIVE Join(_)
Join(lines) ==
  IF lines = <<>> THEN ""
  ELSE IF Len(lines) = 1 THEN lines[1]
  ELSE lines[1] \o "\n" \o Join(Tail(lines))

\* results.map(result => ...).join('\n')
LogBody(results) == Join([i \in DOMAIN results |-> LogLine(results[i])])

\* `logs / ${ Date.now() }.txt`
LogKey(t) == "logs / " \o ToString(t) \o ".txt"

\* ------------------------------------------------------------- state
VARIABLES
  now,      \* the wall clock Date.now() reads, in milliseconds
  bucket,   \* the S3 bucket: a function from the keys stored to their bodies
  puts,     \* the PutObject commands S3 has carried out, in order: <<run, Key>>
  h,        \* per invocation: the handler's variables, the probe of its
            \* iteration in progress and the calls it has made
  stack,    \* the deployed stack: the urls object its constructor holds
  datapoints \* the AvailableURLCount values CloudWatch holds for the
            \* alarm's evaluation period, in order of arrival

vars == <<now, bucket, puts, h, stack, datapoints>>

\* the request of https.get and the promise of checkUrl around it
NoRequest == [state |-> "none", statusCode |-> 0, promise |-> "pending"]

\* pc: where the handler stands; urls, start, status, results, availableCount,
\* params: its variables of these names; k: the iterations of the loop begun;
\* req: the probe of the iteration in progress; trace: the calls made and what came back, in
\* order; sendFailures: the cloudwatch.send calls that failed; event: the
\* event the invocation was given
Idle ==
  [pc |-> "idle", event |-> <<>>, urls |-> <<>>, k |-> 0, start |-> 0, status |-> "unknown",
   results |-> <<>>, availableCount |-> 0, req |-> NoRequest,
   params |-> [Key |-> "", Body |-> ""], trace |-> <<>>, sendFailures |-> 0]

Init ==
  /\ now = 0
  /\ bucket = <<>>
  /\ puts = <<>>
  /\ h = [r \in Runs |-> Idle]
  /\ stack = [urls |-> StackUrls]
  /\ datapoints = <<>>

\* const [name, url] of the iteration in progress
Entry(hr) == ObjectEntries(hr.urls)[hr.k]

\* a faulty variant of LoopDone: the loop leaves one target early
LoopDoneOneEarly(hr) == hr.k + 1 >= Len(ObjectEntries(hr.urls))

\* for (const [name, url] of Object.entries(urls)): no entry is left
LoopDone(hr) == hr.k = Len(ObjectEntries(hr.urls))

\* a faulty variant of LatencyDimensions: the url as the value of dimension URL
LatencyDimensionsByUrl(name, url) == <<[Name |-> "URL", Value |-> url]>>

\* [{ Name: 'URL', Value: name }]
LatencyDimensions(name, url) == <<[Name |-> "URL", Value |-> name]>>

\* the call of putMetricData up to its await: cloudwatch.send is issued
PutMetricData(metricName, value, unit, dimensions) ==
  [op |-> "PutMetricData", Namespace |-> "LambdaFunctionMetrics",
   MetricName |-> metricName, Dimensions |-> dimensions, Unit |-> unit,
   Value |-> value]

\* a faulty variant of Elapsed: the operands exchanged
ElapsedBackwards(start, t) == start - t

\* Date.now() - start, with t the value Date.now() returns
Elapsed(start, t) == t - start

\* The handler from the settling of checkUrl's promise p at time t to the
\* await of putMetricData: the try/catch, the latency, results.push and the
\* latency metric.
AfterProbe(hr, p, t) ==
  LET name == Entry(hr)[1]
      url == Entry(hr)[2]
      status == StatusAfter(p)
      latency == Elapsed(hr.start, t)
  IN [hr EXCEPT
        !.pc = "metric",
        !.status = status,
        !.availableCount = CountAfter(@, p),
        !.results = Append(@, [name |-> name, url |-> url, status |-> status,
                               latency |-> latency]),
        !.trace = @ \o << [op |-> "outcome", target |-> hr.k, status |-> status],
                          [op |-> "push", target |-> hr.k],
                          PutMetricData("URLLatency", latency, "Milliseconds",
                                        LatencyDimensions(name, url)) >>]

\* a faulty variant of LatencyMetricAwaited: putMetricData is called without await
LatencyMetricNotAwaited(hr) == hr.pc \in {"loop", "metric"}

\* await putMetricData('URLLatency', ...) ends the loop body: the handler
\* goes on once the call has returned
LatencyMetricAwaited(hr) == hr.pc = "loop"

\* The handler is invoked with event: urls, results, availableCount.
Invoke(r, event) ==
  /\ h[r].pc = "idle"
  /\ h' = [h EXCEPT ![r] = [Idle EXCEPT
             !.pc = "loop",
             !.event = event,
             !.urls = OrElse(GetProp(event, "urls"), DefaultUrls)]]
  /\ UNCHANGED <<now, bucket, puts, stack, datapoints>>

\* One more iteration begins: start, status = 'unknown', and checkUrl(url)
\* issues https.get.  The target answers or fails later (open), or accepts
\* the request and stays silent; https.get throws at once for a url it
\* does not take.
IssueProbe(r) ==
  /\ LatencyMetricAwaited(h[r])
  /\ ~LoopDone(h[r])
  /\ \E silent \in BOOLEAN :
       LET hr == [h[r] EXCEPT !.k = @ + 1]
           url == Entry(hr)[2]
           req == [state |-> IF GetThrows(url) THEN "threw"
                             ELSE IF silent THEN "silent" ELSE "open",
                   statusCode |-> 0, promise |-> "pending"]
       IN h' = [h EXCEPT ![r] = [hr EXCEPT
                  !.pc = "probing",
                  !.start = now,
                  !.status = "unknown",
                  !.req = req,
                  !.trace = Append(@, [op |-> "get", target |-> hr.k, url |-> url])]]
  /\ UNCHANGED <<now, bucket, puts, stack, datapoints>>

\* The exception https.get threw inside the Promise executor rejects the
\* promise; the handler resumes in its catch block.
GetThrew(r) ==
  /\ h[r].pc = "probing"
  /\ h[r].req.state = "threw"
  /\ LET p == Reject(h[r].req.promise)
     IN h' = [h EXCEPT ![r] = [AfterProbe(h[r], p, now) EXCEPT
                !.req.promise = p]]
  /\ UNCHANGED <<now, bucket, puts, stack, datapoints>>

\* The response of the probe in progress arrives with statusCode: the
\* callback of https.get settles the promise and the handler resumes.
Response(r, statusCode) ==
  /\ h[r].pc = "probing"
  /\ h[r].req.state = "open"
  /\ LET p == OnResponse(h[r].req.promise, statusCode)
     IN h' = [h EXCEPT ![r] = [AfterProbe(h[r], p, now) EXCEPT
                !.req = [state |-> "responded", statusCode |-> statusCode,
                         promise |-> p]]]
  /\ UNCHANGED <<now, bucket, puts, stack, datapoints>>

\* The request of the probe in progress emits 'error' before any response:
\* reject(err), and the handler resumes in its catch block.
ErrorEvent(r) ==
  /\ h[r].pc = "probing"
  /\ h[r].req.state = "open"
  /\ LET p == Reject(h[r].req.promise)
     IN h' = [h EXCEPT ![r] = [AfterProbe(h[r], p, now) EXCEPT
                !.req.state = "errored",
                !.req.promise = p]]
  /\ UNCHANGED <<now, bucket, puts, stack, datapoints>>

\* The request of the iteration in progress, already answered, emits
\* 'error' afterwards (the connection breaks under the unread body):
\* reject(err) on a promise that is settled.  The handler is past its await
\* and does not run again.
LateError(r) ==
  /\ h[r].req.state = "responded"
  /\ h[r].pc = "metric"
  /\ h' = [h EXCEPT ![r].req.state = "respondedThenErrored",
                    ![r].req.promise = Reject(@)]
  /\ UNCHANGED <<now, bucket, puts, stack, datapoints>>

\* cloudwatch.send of the latency metric settles; putMetricData returns and
\* the iteration ends, its bindings (start, status, the promise awaited)
\* with it, or putMetricData's promise is rejected and the handler throws.
LatencyMetricSettles(r, sendOk) ==
  /\ h[r].pc = "metric"
  /\ h' = [h EXCEPT
       ![r].pc = IF PutMetricDataSettles(sendOk) = "fulfilled" THEN "loop" ELSE "threw",
       ![r].sendFailures = IF sendOk THEN @ ELSE @ + 1,
       ![r].start = 0,
       ![r].status = "unknown",
       ![r].req = NoRequest,
       ![r].trace = Append(@, [op |-> "PutMetricDataDone"])]
  /\ UNCHANGED <<now, bucket, puts, stack, datapoints>>

\* a faulty variant of SubmitAggregate: putMetricData is called without
\* await, and the handler goes straight on to build params and call s3.send
SubmitAggregateUnawaited(r) ==
  /\ LatencyMetricAwaited(h[r])
  /\ LoopDone(h[r])
  /\ LET params == [Key |-> LogKey(now), Body |-> LogBody(h[r].results)]
     IN h' = [h EXCEPT
          ![r].pc = "persist",
          ![r].params = params,
          ![r].trace = @ \o <<PutMetricData("AvailableURLCount",
                                            h[r].availableCount, "Count", <<>>),
                              [op |-> "PutObject", Key |-> params.Key,
                               Body |-> params.Body]>>]
  /\ UNCHANGED <<now, bucket, puts, stack, datapoints>>

\* After the loop: putMetricData('AvailableURLCount', availableCount, 'Count')
SubmitAggregate(r) ==
  /\ LatencyMetricAwaited(h[r])
  /\ LoopDone(h[r])
  /\ h' = [h EXCEPT
       ![r].pc = "aggregate",
       ![r].trace = Append(@, PutMetricData("AvailableURLCount",
                                            h[r].availableCount, "Count", <<>>))]
  /\ UNCHANGED <<now, bucket, puts, stack, datapoints>>

\* cloudwatch.send of the aggregate metric settles, CloudWatch holding the
\* datapoint when it succeeded; the handler renders the log, builds params
\* with the key of this instant and issues s3.send.
AggregateSettles(r, sendOk) ==
  /\ h[r].pc = "aggregate"
  /\ LET params == [Key |-> LogKey(now), Body |-> LogBody(h[r].results)]
         done == [op |-> "PutMetricDataDone"]
         failures == IF sendOk THEN h[r].sendFailures ELSE h[r].sendFailures + 1
     IN h' = [h EXCEPT ![r] =
          IF PutMetricDataSettles(sendOk) = "fulfilled"
          THEN [@ EXCEPT !.pc = "persist",
                         !.params = params,
                         !.sendFailures = failures,
                         !.trace = @ \o <<done, [op |-> "PutObject",
                                                 Key |-> params.Key,
                                                 Body |-> params.Body]>>]
          ELSE [@ EXCEPT !.pc = "threw", !.sendFailures = failures,
                         !.trace = Append(@, done)]]
  /\ datapoints' = IF sendOk THEN Append(datapoints, h[r].availableCount)
                   ELSE datapoints
  /\ UNCHANGED <<now, bucket, puts, stack>>

\* the bucket after PutObject: the body stored under key, in place of
\* whatever the key held
Stored(b, key, body) ==
  [x \in DOMAIN b \cup {key} |-> IF x = key THEN body ELSE b[x]]

\* s3.send settles: the object is stored (sendOk) or the command failed and
\* the catch block logs it; the handler returns.
PutObjectSettles(r, sendOk) ==
  /\ h[r].pc = "persist"
  /\ h' = [h EXCEPT
       ![r].pc = IF PersistSettles(sendOk) = "fulfilled" THEN "returned" ELSE "threw",
       ![r].trace = Append(@, [op |-> "PutObjectDone", ok |-> sendOk])]
  /\ IF sendOk
     THEN /\ bucket' = Stored(bucket, h[r].params.Key, h[r].params.Body)
          /\ puts' = Append(puts, <<r, h[r].params.Key>>)
     ELSE UNCHANGED <<bucket, puts>>
  /\ UNCHANGED <<now, stack, datapoints>>

\* a millisecond passes
Tick ==
  /\ now < MaxTime
  /\ now' = now + 1
  /\ UNCHANGED <<bucket, puts, h, stack, datapoints>>

\* ------------------------------------------------------------- specifications
\* what the handler and its environment do in invocation r, once invoked
RunStep(r) ==
  \/ IssueProbe(r)
  \/ GetThrew(r)
  \/ \E statusCode \in StatusCodes : Response(r, statusCode)
  \/ ErrorEvent(r)
  \/ LateError(r)
  \/ \E sendOk \in BOOLEAN : LatencyMetricSettles(r, sendOk)
  \/ SubmitAggregate(r)
  \/ \E sendOk \in BOOLEAN : AggregateSettles(r, sendOk)
  \/ \E sendOk \in BOOLEAN : PutObjectSettles(r, sendOk)

\* one invocation, with every event
Next ==
  \/ Tick
  \/ \E event \in Events : Invoke(1, event)
  \/ RunStep(1)

Spec == Init /\ [][Next]_vars

\* two invocations that may overlap in time: they share the clock and the
\* bucket and nothing else
OverlapEvents ==
  {<< <<"urls", m>> >> : m \in {<<>>, << <<"Google", GoodUrl>> >>,
                                 << <<"2", PlainUrl>> >>}}

OverlapNext ==
  \/ Tick
  \/ \E r \in Runs, event \in OverlapEvents : Invoke(r, event)
  \/ \E r \in Runs : RunStep(r)

OverlapSpec == Init /\ [][OverlapNext]_vars

\* One invocation in which whatever can happen does happen: the handler
\* runs on when a promise it awaits settles, the AWS clients settle every
\* send, a target that is not silent answers or fails, time passes.
FairSpec ==
  /\ Spec
  /\ WF_vars(Tick)
  /\ WF_vars(IssueProbe(1))
  /\ WF_vars(GetThrew(1))
  /\ WF_vars(\E statusCode \in StatusCodes : Response(1, statusCode))
  /\ WF_vars(ErrorEvent(1))
  /\ WF_vars(\E sendOk \in BOOLEAN : LatencyMetricSettles(1, sendOk))
  /\ WF_vars(SubmitAggregate(1))
  /\ WF_vars(\E sendOk \in BOOLEAN : AggregateSettles(1, sendOk))
  /\ WF_vars(\E sendOk \in BOOLEAN : PutObjectSettles(1, sendOk))

\* ------------------------------------------------------------- deployment
\* schedule: events.Schedule.rate(cdk.Duration.minutes(2))
RateMinutes == 2

\* period: Duration.minutes(5) of the AvailableURLCount metric
PeriodMinutes == 5

\* the urls objects a stack may be deployed with: the one of the source and
\* one with a single target
StackMaps == {StackUrls, << <<"Google", GoodUrl>> >>}

\* const urlsCount = Object.keys(urls).length
UrlsCount(st) == Len(st.urls)

\* statistic: 'Sum' over the datapoints of the period
RECURSIVE Sum(_)
Sum(values) ==
  IF values = <<>> THEN 0 ELSE values[1] + Sum(Tail(values))

\* the alarm's condition for a period: the Sum of the period's datapoints
\* is LESS_THAN_THRESHOLD, the threshold being urlsCount; a period without
\* datapoints is missing data, which is not a breach
AlarmCondition(st, values) ==
  /\ values # <<>>
  /\ Sum(values) < UrlsCount(st)

\* a stack deployed with any of the urls objects
ScheduleInit ==
  /\ now = 0
  /\ bucket = <<>>
  /\ puts = <<>>
  /\ h = [r \in Runs |-> Idle]
  /\ stack \in {[urls |-> m] : m \in StackMaps}
  /\ datapoints = <<>>

\* The rule fires for the r-th time in the alarm's period, (r - 1) rates
\* after the first, and invokes the handler with its target input:
\* RuleTargetInput.fromObject(urls) makes the urls object the event itself.
\* The run before has ended by then.
RuleFires(r) ==
  /\ (r - 1) * RateMinutes < PeriodMinutes
  /\ \A q \in Runs : q < r => h[q].pc \in {"returned", "threw"}
  /\ Invoke(r, stack.urls)

\* what the handler and its environment do in a scheduled invocation: as
\* RunStep, without https.get throwing, the urls it is given being https
ScheduledStep(r) ==
  \/ IssueProbe(r)
  \/ \E statusCode \in StatusCodes : Response(r, statusCode)
  \/ ErrorEvent(r)
  \/ LateError(r)
  \/ \E sendOk \in BOOLEAN : LatencyMetricSettles(r, sendOk)
  \/ SubmitAggregate(r)
  \/ \E sendOk \in BOOLEAN : AggregateSettles(r, sendOk)
  \/ \E sendOk \in BOOLEAN : PutObjectSettles(r, sendOk)

\* the deployed stack: the rule invokes the handler at its rate, one run
\* after the other, within one period of the alarm
ScheduleNext ==
  \/ Tick
  \/ \E r \in Runs : RuleFires(r)
  \/ \E r \in Runs : ScheduledStep(r)

ScheduleSpec == ScheduleInit /\ [][ScheduleNext]_vars

\* ------------------------------------------------------------- claims
\* the invocation the single-run specifications follow
run == h[1]

\* the handler has returned to its caller
Returned(hr) == hr.pc = "returned"

\* position of name among the keys of obj, in insertion order
Inserted(obj, name) == CHOOSE j \in DOMAIN obj : obj[j][1] = name

\* how many of the first n events of trace are op
CountOps(trace, op, n) == Cardinality({p \in 1..n : trace[p].op = op})

\* the positions of trace that submit metric metricName
Submissions(trace, metricName) ==
  {p \in DOMAIN trace : trace[p].op = "PutMetricData"
                        /\ trace[p].MetricName = metricName}

\* C1 (as stated): when the handler has finished, results has one entry per
\* target and its i-th entry is the i-th name/url pair of the mapping in
\* insertion order.
C1_InsertionOrder ==
  Returned(run) =>
    /\ Len(run.results) = Len(run.urls)
    /\ \A i \in DOMAIN run.results :
         /\ run.results[i].name = run.urls[i][1]
         /\ run.results[i].url = run.urls[i][2]

\* name a is enumerated before name b: array-index names first, by
\* ascending value, then the other names as inserted
EnumeratedBefore(obj, a, b) ==
  IF ArrayIndex(a) >= 0 /\ ArrayIndex(b) >= 0 THEN ArrayIndex(a) < ArrayIndex(b)
  ELSE IF ArrayIndex(a) >= 0 THEN TRUE
  ELSE IF ArrayIndex(b) >= 0 THEN FALSE
  ELSE Inserted(obj, a) < Inserted(obj, b)

\* C1 (amended): when the handler has finished, results has exactly one
\* entry per target, each entry carries the name and the url of one pair of
\* the mapping, no target is skipped or duplicated, and the entries are in
\* the enumeration order of the mapping: names that are array indices first,
\* in ascending numeric order, then the other names in insertion order.
C1_EnumerationOrder ==
  Returned(run) =>
    /\ Len(run.results) = Len(run.urls)
    /\ \A i \in DOMAIN run.results :
         /\ run.results[i].name \in Keys(run.urls)
         /\ run.results[i].url = run.urls[Inserted(run.urls, run.results[i].name)][2]
    /\ \A i, j \in DOMAIN run.results :
         i < j => EnumeratedBefore(run.urls, run.results[i].name, run.results[j].name)

\* C1 witness: a finished run over a mapping that names "Google" before "2"
C1_Witness ==
  /\ Returned(run)
  /\ Len(run.urls) = 2
  /\ run.urls[1][1] = "Google" /\ run.urls[2][1] = "2"
  /\ run.results[1].name = "2" /\ run.results[2].name = "Google"
  /\ run.results[1].status # run.results[2].status

\* the entries of results whose status is 'available'
AvailableEntries(results) ==
  {i \in DOMAIN results : results[i].status = "available"}

\* C2: the value of every AvailableURLCount submission is the number of
\* results entries with status 'available', and is at most the number of
\* targets.
C2_CountMatchesResults ==
  \A p \in Submissions(run.trace, "AvailableURLCount") :
    /\ run.trace[p].Value = Cardinality(AvailableEntries(run.results))
    /\ run.trace[p].Value <= Len(run.urls)

\* C2 witness: the aggregate metric is submitted after one available and
\* one unavailable probe
C2_Witness ==
  /\ Submissions(run.trace, "AvailableURLCount") # {}
  /\ Len(run.results) = 2
  /\ Cardinality(AvailableEntries(run.results)) = 1

\* C3: once a probe has its outcome, its entry is 'available' exactly when
\* a response arrived with 200 <= statusCode < 300 and 'unavailable'
\* otherwise (another status code, an 'error', https.get throwing), and the
\* probe's promise has settled to the one outcome the entry shows, also
\* after an 'error' that follows the response.
C3_Classification ==
  run.pc = "metric" =>
    LET entry == run.results[run.k]
        answered == run.req.state \in {"responded", "respondedThenErrored"}
    IN /\ Len(run.results) = run.k
       /\ entry.status \in {"available", "unavailable"}
       /\ entry.status = "available" <=>
            (answered /\ 200 <= run.req.statusCode /\ run.req.statusCode < 300)
       /\ run.req.promise \in {"fulfilled", "rejected"}
       /\ run.req.promise = "fulfilled" <=> entry.status = "available"

\* C3 witness: a probe answered 299 whose request emitted 'error' afterwards
C3_Witness ==
  /\ run.pc = "metric"
  /\ run.req.state = "respondedThenErrored"
  /\ run.req.statusCode = 299
  /\ run.results[run.k].status = "available"

\* the positions of trace where op happens
Positions(trace, op) == {p \in DOMAIN trace : trace[p].op = op}

\* C4: when the probe of a target is issued, the probe of every earlier
\* target has had its outcome determined and its entry appended, and every
\* earlier latency-metric submission has been made and has completed.
C4_Sequential ==
  \A p \in Positions(run.trace, "get") :
    LET j == run.trace[p].target
    IN /\ CountOps(run.trace, "get", p - 1) = j - 1
       /\ CountOps(run.trace, "outcome", p - 1) = j - 1
       /\ CountOps(run.trace, "push", p - 1) = j - 1
       /\ CountOps(run.trace, "PutMetricData", p - 1) = j - 1
       /\ CountOps(run.trace, "PutMetricDataDone", p - 1) = j - 1

\* C4 witness: the probe of a second target has been issued after the
\* latency metric of the first one failed
C4_Witness ==
  /\ run.pc = "probing"
  /\ run.k = 2
  /\ run.sendFailures = 1

\* C5: every results entry, and so at the end of the run every target, has
\* exactly one URLLatency submission; it comes
\* right after the probe's outcome and the append of the entry and before
\* the next target's probe, its only dimension is URL = the entry's name,
\* its unit is Milliseconds and its value is the entry's latency.
C5_LatencyMetricPerTarget ==
  /\ Cardinality(Submissions(run.trace, "URLLatency")) = Len(run.results)
  /\ Returned(run) => Len(run.results) = Len(run.urls)
  /\ \A j \in DOMAIN run.results :
       \E p \in Submissions(run.trace, "URLLatency") :
         /\ Cardinality(Submissions(run.trace, "URLLatency") \cap 1..p) = j
         /\ run.trace[p].Dimensions =
              <<[Name |-> "URL", Value |-> run.results[j].name]>>
         /\ run.trace[p].Unit = "Milliseconds"
         /\ run.trace[p].Value = run.results[j].latency
         /\ p >= 4
         /\ run.trace[p - 1] = [op |-> "push", target |-> j]
         /\ run.trace[p - 2] = [op |-> "outcome", target |-> j,
                                status |-> run.results[j].status]
         /\ run.trace[p - 3].op = "get" /\ run.trace[p - 3].target = j
         /\ \A q \in Positions(run.trace, "get") :
              run.trace[q].target > j => q > p

\* C5 witness: a finished run of two targets with different names and
\* urls, one of them with a latency above zero
C5_Witness ==
  /\ Returned(run)
  /\ Len(run.results) = 2
  /\ run.results[1].url # run.results[2].url
  /\ run.results[1].latency # run.results[2].latency

\* C6: a run submits AvailableURLCount at most once, and exactly once when
\* its loop is over; the submission has unit Count and no dimensions, comes
\* after the probe and the completed latency submission of every target,
\* and every PutObject comes after it.
C6_OneAggregateMetric ==
  LET agg == Submissions(run.trace, "AvailableURLCount")
      n == Len(run.urls)
  IN /\ Cardinality(agg) <= 1
     /\ run.pc \in {"aggregate", "persist", "returned", "threw"} =>
          Cardinality(agg) = 1
     /\ \A p \in agg :
          /\ run.trace[p].Unit = "Count"
          /\ run.trace[p].Dimensions = <<>>
          /\ CountOps(run.trace, "get", p - 1) = n
          /\ CountOps(run.trace, "outcome", p - 1) = n
          /\ Cardinality(Submissions(run.trace, "URLLatency") \cap 1..(p - 1)) = n
          /\ CountOps(run.trace, "PutMetricDataDone", p - 1) = n
     /\ \A q \in Positions(run.trace, "PutObject") : \E p \in agg : p < q

\* C6 witness: a finished run of two targets
C6_Witness ==
  /\ Returned(run)
  /\ Len(run.urls) = 2
  /\ Cardinality(Submissions(run.trace, "AvailableURLCount")) = 1
  /\ Positions(run.trace, "PutObject") # {}

\* C7: the handler never ends by throwing: no error of a probe, of
\* cloudwatch.send or of s3.send reaches its caller.
C7_NoErrorPropagates == run.pc # "threw"

\* C7 witness: the handler has returned from a run in which a probe failed,
\* every metric submission failed and the PutObject failed
C7_Witness ==
  /\ Returned(run)
  /\ Len(run.results) >= 1
  /\ run.results[1].status = "unavailable"
  /\ run.sendFailures = Len(run.results) + 1
  /\ run.trace[Len(run.trace)] = [op |-> "PutObjectDone", ok |-> FALSE]

\* C8: a step in which a metric submission fails changes neither results
\* nor availableCount nor the targets left, and takes the handler where a
\* successful submission takes it: to the next iteration after a latency
\* metric, to the PutObject of the log body of results after the aggregate.
C8_MetricFailureIsolated ==
  [][h'[1].sendFailures > h[1].sendFailures =>
       /\ h'[1].results = h[1].results
       /\ h'[1].availableCount = h[1].availableCount
       /\ h'[1].urls = h[1].urls
       /\ h'[1].k = h[1].k
       /\ h[1].pc = "metric" => h'[1].pc = "loop"
       /\ h[1].pc = "aggregate" =>
            /\ h'[1].pc = "persist"
            /\ h'[1].trace[Len(h'[1].trace)] =
                 [op |-> "PutObject", Key |-> LogKey(now),
                  Body |-> LogBody(h[1].results)]]_vars

\* C8 witness: a run of two targets has returned, its log handed to S3,
\* with all three metric submissions failed
C8_Witness ==
  /\ Returned(run)
  /\ Len(run.results) = 2
  /\ run.sendFailures = 3
  /\ CountOps(run.trace, "PutObject", Len(run.trace)) = 1
  /\ run.params.Body = LogBody(run.results)

\* C9: an invocation that has begun ends: every probe yields an outcome, so
\* the run reaches the aggregate metric and the PutObject and returns.
C9_EveryRunEnds == (run.pc # "idle") ~> (run.pc \in {"returned", "threw"})

\* C10: no two PutObject commands carried out use the same key, so no log
\* record replaces another run's record.
C10_DistinctKeys ==
  \A p, q \in DOMAIN puts : p # q => puts[p][2] # puts[q][2]

\* C11: the key of every PutObject is exactly "logs/", the decimal
\* Date.now() of some instant up to now, and ".txt", with nothing between.
C11_KeyFormat ==
  \A p \in Positions(run.trace, "PutObject") :
    \E t \in 0..now : run.trace[p].Key = "logs/" \o ToString(t) \o ".txt"

\* how many characters of s are the newline
Newlines(s) == Cardinality({i \in 1..Len(s) : SubSeq(s, i, i) = "\n"})

\* the line the log shows for a results entry
ExpectedLine(name, url, status, latency) ==
  "Name: " \o name \o ", URL: " \o url \o ", Status: " \o status
    \o ", Latency: " \o ToString(latency) \o "ms"

\* the first n entries of results, one line each, a newline between two lines
RECURSIVE ExpectedBody(_, _)
ExpectedBody(results, n) ==
  IF n = 0 THEN ""
  ELSE (IF n = 1 THEN "" ELSE ExpectedBody(results, n - 1) \o "\n")
       \o ExpectedLine(results[n].name, results[n].url, results[n].status,
                       results[n].latency)

\* C12: the body handed to S3 is the results entries in results order, each
\* as 'Name: <name>, URL: <url>, Status: <status>, Latency: <latency>ms',
\* with one newline between two lines and none after the last: it has as
\* many lines as there are targets and is a function of results alone.
C12_LogBodyFormat ==
  run.pc = "persist" =>
    /\ run.params.Body = ExpectedBody(run.results, Len(run.results))
    /\ run.trace[Len(run.trace)].Body = run.params.Body
    /\ Len(run.results) = Len(run.urls)
    /\ Len(run.urls) >= 1 =>
         /\ Newlines(run.params.Body) = Len(run.urls) - 1
         /\ SubSeq(run.params.Body, Len(run.params.Body), Len(run.params.Body)) = "s"
    /\ Len(run.urls) = 0 => run.params.Body = ""

\* C12 witness: the body of a run of two targets, the first available with
\* latency 1, the second unavailable
C12_Witness ==
  /\ run.pc = "persist"
  /\ run.params.Body =
       "Name: 2, URL: https://a.example/, Status: available, Latency: 1ms"
       \o "\n"
       \o "Name: Google, URL: http://b.example/, Status: unavailable, Latency: 0ms"

\* the <<name, url>> pairs whose probe has been issued
Probed(hr) ==
  {<<ObjectEntries(hr.urls)[hr.trace[p].target][1], hr.trace[p].url>> :
     p \in Positions(hr.trace, "get")}

\* the <<name, url>> pairs of a mapping
Pairs(obj) == {obj[i] : i \in DOMAIN obj}

\* the built-in default set
BuiltIn == {<<"Google", "https://www.google.com/">>,
            <<"Youtube", "https://www.youtube.com/">>}

\* C13: an invocation whose event has no urls probes targets of the built-in
\* default set only, and all of them by the time it returns; an invocation
\* whose event has a urls mapping, the empty one included, probes targets
\* of that mapping only, and all of them by the time it returns.
C13_DefaultOnlyWhenAbsent ==
  run.pc # "idle" =>
    LET supplied == "urls" \in Keys(run.event)
        targets == IF supplied
                   THEN Pairs(run.event[Inserted(run.event, "urls")][2])
                   ELSE BuiltIn
    IN /\ Probed(run) \subseteq targets
       /\ Returned(run) => Probed(run) = targets
       /\ supplied => Probed(run) \cap BuiltIn = {}

\* C13 witness: a run given the empty mapping has returned without a probe
C13_Witness ==
  /\ Returned(run)
  /\ run.event = << <<"urls", <<>> >> >>
  /\ Probed(run) = {}
  /\ run.results = <<>>

\* C13 second case: a run given no mapping has returned with both defaults probed
C13_DefaultWitness ==
  /\ Returned(run)
  /\ run.event = <<>>
  /\ Probed(run) = BuiltIn

\* C14: a run calls PutObject at most once, and exactly once by the time it
\* returns; the call comes right after the aggregate metric submission has
\* completed.  A run over the empty mapping submits no latency metric,
\* submits the aggregate metric with value 0 and hands S3 an empty body,
\* which the bucket holds when the PutObject succeeds.
C14_OnePutAfterAggregate ==
  LET putPositions == Positions(run.trace, "PutObject")
      agg == Submissions(run.trace, "AvailableURLCount")
  IN /\ Cardinality(putPositions) <= 1
     /\ run.pc \in {"persist", "returned"} => Cardinality(putPositions) = 1
     /\ Cardinality(Positions(run.trace, "PutObjectDone")) =
          (IF Returned(run) THEN 1 ELSE 0)
     /\ \A q \in putPositions :
          /\ q >= 3
          /\ run.trace[q - 1].op = "PutMetricDataDone"
          /\ q - 2 \in agg
          /\ \A d \in Positions(run.trace, "PutObjectDone") : d > q
     /\ (run.pc \in {"persist", "returned"} /\ run.urls = <<>>) =>
          /\ Submissions(run.trace, "URLLatency") = {}
          /\ \A p \in agg : run.trace[p].Value = 0
          /\ \A q \in putPositions : run.trace[q].Body = ""
          /\ \A i \in DOMAIN puts :
               puts[i][1] = 1 => /\ puts[i][2] \in DOMAIN bucket
                                 /\ bucket[puts[i][2]] = ""

\* C14 witness: a run over the empty mapping has returned and its empty log
\* is in the bucket
C14_Witness ==
  /\ Returned(run)
  /\ run.urls = <<>>
  /\ Len(puts) = 1
  /\ bucket[puts[1][2]] = ""
  /\ Cardinality(Positions(run.trace, "PutObject")) = 1

Contains(s, sub) ==
  \E i \in 1..(Len(s) - Len(sub) + 1) : SubSeq(s, i, i + Len(sub) - 1) = sub

\* C17: no results entry, and no log body handed to S3, shows the status
\* 'unknown': every entry is 'available' or 'unavailable'; availableCount
\* is the number of 'available' entries at every moment, and the step that
\* appends an entry adds one to it for an 'available' entry and nothing for
\* an 'unavailable' one.
C17_UnknownNeverObservable ==
  /\ [](/\ \A i \in DOMAIN run.results :
             run.results[i].status \in {"available", "unavailable"}
        /\ run.availableCount = Cardinality(AvailableEntries(run.results))
        /\ run.pc = "persist" => ~Contains(run.params.Body, "unknown"))
  /\ [][Len(h'[1].results) > Len(h[1].results) =>
          h'[1].availableCount = h[1].availableCount +
            (IF h'[1].results[Len(h'[1].results)].status = "available"
             THEN 1 ELSE 0)]_vars

\* C17 witness: the log of an unavailable and an available entry is handed
\* to S3, with availableCount 1
C17_Witness ==
  /\ run.pc = "persist"
  /\ Len(run.results) = 2
  /\ run.results[1].status = "unavailable"
  /\ run.results[2].status = "available"
  /\ run.availableCount = 1
  /\ Contains(run.params.Body, "Status: unavailable")


\* C15: in a stack deployed with the urls object of the source, whenever a
\* datapoint of the period is lower than urlsCount (a run reported fewer
\* available targets than are configured), the alarm's condition holds for
\* the period.
C15_AlarmWhenARunFellShort ==
  stack.urls = StackUrls =>
    ((\E i \in DOMAIN datapoints : datapoints[i] < UrlsCount(stack))
       => AlarmCondition(stack, datapoints))

\* C18: a scheduled invocation that has returned probed exactly the targets
\* of the urls object the stack is deployed with, and their number is the
\* alarm's threshold urlsCount.
C18_ScheduledTargetsAreConfigured ==
  \A r \in Runs :
    Returned(h[r]) =>
      /\ Probed(h[r]) = Pairs(stack.urls)
      /\ Len(h[r].results) = UrlsCount(stack)

\* the same for a stack deployed with the urls object of the source, which
\* is the handler's built-in default
ScheduledTargetsOfSourceStack ==
  \A r \in Runs :
    (stack.urls = StackUrls /\ Returned(h[r])) =>
      /\ Probed(h[r]) = Pairs(stack.urls)
      /\ Len(h[r].results) = UrlsCount(stack)

====
